---- MODULE Spec2Model ----
(***************************************************************************)
(* PyExplain: decoding of Python tracebacks into beginner explanations.    *)
(* State machine of the public operations of pyexplain/core.py             *)
(* (decode_traceback, decode_exception, safe_run), the package-level       *)
(* decode() dispatcher and the static explanation table of mapping.py.     *)
(*                                                                         *)
(* Text is a sequence of tokens.  " ", "\n", ":" and ESC are single        *)
(* characters (ESC stands for one whole terminal escape sequence); a word  *)
(* such as "ValueError" is one token.  pyexplain/utils.py is not part of   *)
(* the sources at hand; its functions are written from their contracts.    *)
(***************************************************************************)
EXTENDS Integers, Sequences, FiniteSets, TLC

VARIABLES sys_stdout, heap, call, table

vars == <<sys_stdout, heap, call, table>>

(* ---------------- bounds of the exploration ---------------- *)

\* longest snippet, in statements (one statement per source line)
MaxStmts == 3

(* ---------------- Python values ---------------- *)

\* Python's None for optional fields; a present value v is <<v>>
None == <<>>

Some(v) == <<v>>

PyNone == [kind |-> "NoneType", text |-> <<>>, n |-> 0, cls |-> "", msg |-> <<>>, tb |-> <<>>]

PyInt(n) == [kind |-> "int", text |-> <<>>, n |-> n, cls |-> "", msg |-> <<>>, tb |-> <<>>]

PyStr(t) == [kind |-> "str", text |-> t, n |-> 0, cls |-> "", msg |-> <<>>, tb |-> <<>>]

\* an exception instance: its class, its message (str(e)) and its traceback
\* (None when it was never raised, else <<[file, line, func]>>)
PyExc(c, m, tb) == [kind |-> "exception", text |-> <<>>, n |-> 0, cls |-> c, msg |-> m, tb |-> tb]

\* a truth test that takes a text of whitespace only for an empty one
Truthy_ignoring_whitespace(v) ==
  CASE v.kind = "NoneType" -> FALSE
    [] v.kind = "int" -> v.n # 0
    [] v.kind = "str" -> \E i \in 1..Len(v.text) : v.text[i] \notin {" ", "  ", "    ", "\n"}
    [] OTHER -> TRUE

\* bool(v)
Truthy(v) ==
  CASE v.kind = "NoneType" -> FALSE
    [] v.kind = "int" -> v.n # 0
    [] v.kind = "str" -> v.text # <<>>
    [] OTHER -> TRUE

\* classes deriving from BaseException but not from Exception
FlowControlSignals == {"SystemExit", "KeyboardInterrupt", "GeneratorExit"}

\* issubclass(cls, Exception)
IsExceptionSubclass(cls) == cls \notin FlowControlSignals

(* ---------------- text ---------------- *)

ESC == "\\033[91m"

\* runs of two and of four spaces are one token each
Whitespace == {" ", "  ", "    ", "\n"}

SyntaxClass == {"SyntaxError", "IndentationError", "TabError"}

ErrorNames ==
  {"SyntaxError", "IndentationError", "TabError", "NameError", "TypeError",
   "ValueError", "KeyError", "IndexError", "ZeroDivisionError",
   "AttributeError", "FileNotFoundError", "ModuleNotFoundError",
   "ImportError", "Exception", "BaseException", "MyError"} \cup FlowControlSignals

\* tokens that are one identifier (a word of letters, digits and "_")
Identifiers == ErrorNames \cup {"m", "Note", "a", "b", "divide", "safe_run"}

IsIdentifier(t) == t \in Identifiers

RECURSIVE DropLeadingSpace(_)
DropLeadingSpace(t) ==
  IF t # <<>> /\ Head(t) \in Whitespace THEN DropLeadingSpace(Tail(t)) ELSE t

RECURSIVE DropTrailingSpace(_)
DropTrailingSpace(t) ==
  IF t # <<>> /\ t[Len(t)] \in Whitespace
  THEN DropTrailingSpace(SubSeq(t, 1, Len(t) - 1)) ELSE t

\* str.strip()
Strip(t) == DropTrailingSpace(DropLeadingSpace(t))

RECURSIVE RemoveEscapes(_)
RemoveEscapes(t) ==
  IF t = <<>> THEN <<>>
  ELSE IF Head(t) = ESC THEN RemoveEscapes(Tail(t))
  ELSE <<Head(t)>> \o RemoveEscapes(Tail(t))

\* the lines of t from token i on, cur being the line read so far
RECURSIVE SplitFrom(_, _, _)
SplitFrom(t, i, cur) ==
  IF i > Len(t) THEN <<cur>>
  ELSE IF t[i] = "\n" THEN <<cur>> \o SplitFrom(t, i + 1, <<>>)
  ELSE SplitFrom(t, i + 1, Append(cur, t[i]))

\* str.split("\n")
SplitLines(t) == SplitFrom(t, 1, <<>>)

(* ---------------- pyexplain/utils.py, from its contract ---------------- *)

\* a sanitizer that strips the whitespace before it removes the escapes
sanitize_traceback_strip_first(v) ==
  IF v.kind # "str" THEN <<>> ELSE RemoveEscapes(Strip(v.text))

\* a sanitizer that strips the whitespace and leaves the escapes in
sanitize_traceback_strip_only(v) ==
  IF v.kind # "str" THEN <<>> ELSE Strip(v.text)

sanitize_traceback(v) ==
  IF v.kind # "str" THEN <<>> ELSE Strip(RemoveEscapes(v.text))

\* the largest element of a non-empty set of positions
Last(S) == CHOOSE i \in S : \A j \in S : j <= i

\* the first line break of t at or after position i, Len(t) + 1 when none
LineEnd(t, i) ==
  LET E == {j \in i..Len(t) : t[j] = "\n"}
  IN IF E = {} THEN Len(t) + 1 ELSE CHOOSE j \in E : \A k \in E : j <= k

\* the positions where a line of the form  <Identifier>: <message>  starts
TypeLines(t) ==
  {i \in 1..Len(t) :
     /\ i = 1 \/ t[i - 1] = "\n"
     /\ i + 2 <= Len(t)
     /\ IsIdentifier(t[i])
     /\ t[i + 1] = ":"
     /\ t[i + 2] = " "}

extract_error_type(t) ==
  LET S == TypeLines(t)
  IN IF S = {} THEN None ELSE Some(t[Last(S)])

\* a message cut at the last colon and space of the line instead of the first
extract_error_message_after_last_colon(t) ==
  LET S == TypeLines(t)
      e == IF S = {} THEN 0 ELSE LineEnd(t, Last(S))
      C == IF S = {} THEN {}
           ELSE {i \in Last(S)..(e - 2) : t[i] = ":" /\ t[i + 1] = " "}
  IN IF S = {} THEN None ELSE Some(SubSeq(t, Last(C) + 2, e - 1))

extract_error_message(t) ==
  LET S == TypeLines(t)
  IN IF S = {} THEN None ELSE Some(SubSeq(t, Last(S) + 3, LineEnd(t, Last(S)) - 1))

\* line of core.py holding the exec() call of safe_run
ExecLine == 138

\* line of core.py holding the compile() call of safe_run
CompileLine == 137

\* the line numbers that occur in the diagnostics explored
LineNumbers == (1..MaxStmts) \cup {5, 10, CompileLine, ExecLine}

\* a token is a number when it is the decimal numeral of one
IsNumber(t) == \E n \in LineNumbers : ToString(n) = t

\* int(t)
IntOf(t) == CHOOSE n \in LineNumbers : ToString(n) = t

\* the positions of the frame headers  File "<path>", line <N>, in <function>
FrameHeaders(t) ==
  {i \in 1..Len(t) :
     /\ i + 5 <= Len(t)
     /\ t[i] = "File \""
     /\ t[i + 2] = "\", line "
     /\ t[i + 4] = ", in "
     /\ t[i + 1] # "\n" /\ t[i + 5] # "\n"
     /\ IsNumber(t[i + 3])}

\* the first (outermost) frame header of the text
LastFrame_outermost(t) ==
  LET S == FrameHeaders(t)
  IN IF S = {} THEN None
     ELSE LET p == CHOOSE i \in S : \A j \in S : i <= j
          IN Some([file |-> t[p + 1], line |-> IntOf(t[p + 3]), func |-> t[p + 5]])

\* the last (innermost) frame header of the text, as <<[file, line, func]>>
LastFrame(t) ==
  LET S == FrameHeaders(t)
  IN IF S = {} THEN None
     ELSE LET p == Last(S)
          IN Some([file |-> t[p + 1], line |-> IntOf(t[p + 3]), func |-> t[p + 5]])

extract_line_number(t) ==
  LET f == LastFrame(t) IN IF f = None THEN None ELSE Some(f[1].line)

extract_file_name(t) ==
  LET f == LastFrame(t) IN IF f = None THEN None ELSE Some(f[1].file)

\* a function name that is also given for a frame at top level
extract_function_name_with_module(t) ==
  LET f == LastFrame(t) IN IF f = None THEN None ELSE Some(f[1].func)

extract_function_name(t) ==
  LET f == LastFrame(t)
  IN IF f = None \/ f[1].func = "<module>" THEN None ELSE Some(f[1].func)

\* the argument is an optional name: None or <<name>>
categorize_error(et) ==
  IF et = None THEN "Other"
  ELSE LET T == et[1]
       IN CASE T \in SyntaxClass -> "Syntax Errors"
            [] T \in {"NameError", "UnboundLocalError"} -> "Name Errors"
            [] T = "TypeError" -> "Type Errors"
            [] T = "ValueError" -> "Value Errors"
            [] T \in {"ZeroDivisionError", "OverflowError", "FloatingPointError", "ArithmeticError"} -> "Arithmetic Errors"
            [] OTHER -> "Other"

\* default cap of truncate_long_message, counted in tokens
MaxMessageLen == 200

truncate_long_message(m) ==
  IF Len(m) > MaxMessageLen THEN SubSeq(m, 1, MaxMessageLen - 1) \o <<"...">> ELSE m

is_syntax_error(t) ==
  LET et == extract_error_type(t) IN et # None /\ et[1] \in SyntaxClass

\* excerpt line, caret column and message of a syntax-class diagnostic
parse_syntax_error_details(t) ==
  LET ls == SplitLines(t)
      C == {i \in 2..Len(ls) : Strip(ls[i]) = <<"^">>}
      k == IF C = {} THEN 0 ELSE CHOOSE i \in C : \A j \in C : j <= i
  IN [line |-> IF k = 0 THEN None ELSE Some(Strip(ls[k - 1])),
      column |-> IF k = 0 THEN None ELSE Some(Len(ls[k])),
      message |-> extract_error_message(t)]

(* ---------------- pyexplain/mapping.py ---------------- *)

EXCEPTION_MAPPINGS ==
  "SyntaxError" :>
    [simple_explanation |-> "Your code has a mistake in the structure or spelling, so Python could not understand it. This often happens if you forget brackets, colons, or put things in the wrong place.",
     fix_suggestion |-> "Carefully check your code for typos, missing symbols, or misplaced lines. Fix the error and try again.",
     tags |-> <<"syntax", "typo", "code structure", "beginner">>,
     emoji |-> "emoji:memo"] @@
  "IndentationError" :>
    [simple_explanation |-> "Your code is not lined up properly. Python needs code blocks to be indented with spaces or tabs. This error shows when indentation is missing or uneven.",
     fix_suggestion |-> "Make sure all your code blocks start with the same amount of spaces or tabs.",
     tags |-> <<"syntax", "indentation", "beginner">>,
     emoji |-> "emoji:straight ruler"] @@
  "TabError" :>
    [simple_explanation |-> "You mixed spaces and tabs to indent your code. Python does not like mixing both at the same level. This can happen easily by copying code from different places.",
     fix_suggestion |-> "Stick to only spaces or only tabs for all indentation. Fix and save your file before running.",
     tags |-> <<"syntax", "indentation", "spaces", "tabs">>,
     emoji |-> "emoji:construction worker"] @@
  "NameError" :>
    [simple_explanation |-> "Python cannot find a variable or function name you used. You probably wrote the name wrong or forgot to define it.",
     fix_suggestion |-> "Check your spelling and make sure the variable or function exists before using it.",
     tags |-> <<"variable", "function", "typo", "undefined">>,
     emoji |-> "emoji:left-pointing magnifying glass"] @@
  "TypeError" :>
    [simple_explanation |-> "You used a value with the wrong type (like trying to add a number and a string). Python does not know how to handle this combination.",
     fix_suggestion |-> "Make sure all values have compatible types before using them together.",
     tags |-> <<"type", "data", "incompatible", "operation">>,
     emoji |-> "emoji:jigsaw puzzle piece"] @@
  "ValueError" :>
    [simple_explanation |-> "A function got a value of the correct type, but the value is not valid or expected. For example: converting 'abc' to an integer fails.",
     fix_suggestion |-> "Double-check values you pass to functions. Make sure they are allowed.",
     tags |-> <<"data", "validation", "value", "conversion">>,
     emoji |-> "emoji:vertical traffic light"] @@
  "KeyError" :>
    [simple_explanation |-> "You tried to get a value using a dictionary key that does not exist. Python could not find that entry in your dictionary.",
     fix_suggestion |-> "Check if the key is correct, or use dict.get() to avoid this error.",
     tags |-> <<"dictionary", "data", "lookup", "key">>,
     emoji |-> "emoji:key"] @@
  "IndexError" :>
    [simple_explanation |-> "You tried to access an item in a list or sequence by index, but that position does not exist. Indexes go from 0 to length-1.",
     fix_suggestion |-> "Make sure the index is within the correct range for your data.",
     tags |-> <<"list", "array", "data", "index", "out of range">>,
     emoji |-> "emoji:package"] @@
  "ZeroDivisionError" :>
    [simple_explanation |-> "You tried to divide by zero. This is not allowed in mathematics or Python.",
     fix_suggestion |-> "Check your code to make sure the denominator is never zero before dividing.",
     tags |-> <<"math", "division", "arithmetic", "zero">>,
     emoji |-> "emoji:no entry sign"] @@
  "AttributeError" :>
    [simple_explanation |-> "You tried to use a function or property on a value, but that value does not have it. Maybe you used the wrong type or a spelling mistake.",
     fix_suggestion |-> "Check the object's type and spelling. Use dir(object) to view valid attributes.",
     tags |-> <<"attribute", "object", "method", "property", "typo">>,
     emoji |-> "emoji:label"] @@
  "FileNotFoundError" :>
    [simple_explanation |-> "Python could not find the file you tried to open. It may not exist, or you wrote the name or path incorrectly.",
     fix_suggestion |-> "Check the filename and path. Make sure the file exists where you expect it.",
     tags |-> <<"file", "io", "filesystem", "path">>,
     emoji |-> "emoji:open file folder"] @@
  "ModuleNotFoundError" :>
    [simple_explanation |-> "Python could not find a module you tried to import. This means you may have forgotten to install it, or wrote its name wrongly.",
     fix_suggestion |-> "Double-check the module name and install if needed (pip install).",
     tags |-> <<"module", "import", "installation", "dependency">>,
     emoji |-> "emoji:package"] @@
  "ImportError" :>
    [simple_explanation |-> "Python faced a problem importing something. You may have misspelled a name, or the module does not have what you want.",
     fix_suggestion |-> "Check all your import statements and make sure the module or symbol exists.",
     tags |-> <<"import", "module", "symbol", "dependency">>,
     emoji |-> "emoji:link symbol"] @@
  "Exception" :>
    [simple_explanation |-> "An unexpected problem happened in your code. This is the most general error.",
     fix_suggestion |-> "Check your code logic, inputs, and see above for more details about the error.",
     tags |-> <<"exception", "error", "general">>,
     emoji |-> "emoji:hammer and wrench"] @@
  "BaseException" :>
    [simple_explanation |-> "Python raised a very general error that is the base of all other exceptions. Usually, you get a more specific error above.",
     fix_suggestion |-> "Try to find the specific error type raised in your code for a more detailed explanation.",
     tags |-> <<"base", "exception", "general">>,
     emoji |-> "emoji:earth globe americas"] @@
  "__unknown__" :>
    [simple_explanation |-> "An unknown or uncommon error occurred. We could not match it with a standard error.",
     fix_suggestion |-> "Read the full error message to know what's wrong, or search online for help.",
     tags |-> <<"unknown", "unmatched", "edge-case">>,
     emoji |-> "emoji:face with monocle"]

\* the variable table is the dictionary object EXCEPTION_MAPPINGS as it is now;
\* the definition above is its content when the module is loaded

\* a lookup that sends every name it does not find to the generic entry
get_exception_mapping_generic(error_type) ==
  IF error_type \in DOMAIN table THEN table[error_type] ELSE table["Exception"]

\* a lookup that takes the names of the two root classes for unknown ones
get_exception_mapping_no_roots(error_type) ==
  IF error_type \in DOMAIN table \ {"Exception", "BaseException"} THEN table[error_type]
  ELSE table["__unknown__"]

get_exception_mapping(error_type) ==
  IF error_type \in DOMAIN table THEN table[error_type]
  ELSE table["__unknown__"]

\* the key a Python value is in a dictionary lookup; "<None>" stands for the
\* object None, which is the name of nothing
KeyOf(v) ==
  IF v.kind # "str" THEN "<None>" ELSE IF v.text = <<>> THEN "" ELSE v.text[1]

\* get_exception_mapping applied to a Python value
get_exception_mapping_of(v) == get_exception_mapping(KeyOf(v))

\* a lookup that stores the fallback entry under each name it does not find
\* (dict.setdefault)
table_after_setdefault(key) ==
  IF key = None \/ key[1] \in DOMAIN table THEN table
  ELSE [k \in DOMAIN table \cup {key[1]} |->
          IF k \in DOMAIN table THEN table[k] ELSE table["__unknown__"]]

\* the table after a lookup of key (None: no lookup was made): dict.get
\* reads the dictionary and stores nothing in it
table_after_get(key) == table

(* ---------------- pyexplain/_version.py ---------------- *)

branding == "Powered by PyExplain - Created by Yahya"

(* ---------------- pyexplain/core.py ---------------- *)

\* the guard's dictionary without a tag
InvalidTraceback_no_tags(add_branding) ==
  [error_type |-> "InvalidInput",
   original_message |-> <<"No traceback provided">>,
   simple_explanation |-> "PyExplain needs a valid error traceback to decode.",
   fix_suggestion |-> "Make sure you're passing a Python error message to decode_traceback().",
   line_number |-> None,
   file_name |-> None,
   function_name |-> None,
   tags |-> <<>>,
   category |-> "Input Error",
   emoji |-> "emoji:warning sign",
   branding |-> IF add_branding THEN Some(branding) ELSE None,
   success |-> FALSE,
   raw_traceback |-> <<>>]

\* the dictionary built by the guard of decode_traceback
InvalidTraceback(add_branding) ==
  [error_type |-> "InvalidInput",
   original_message |-> <<"No traceback provided">>,
   simple_explanation |-> "PyExplain needs a valid error traceback to decode.",
   fix_suggestion |-> "Make sure you're passing a Python error message to decode_traceback().",
   line_number |-> None,
   file_name |-> None,
   function_name |-> None,
   tags |-> <<"invalid_input">>,
   category |-> "Input Error",
   emoji |-> "emoji:warning sign",
   branding |-> IF add_branding THEN Some(branding) ELSE None,
   success |-> FALSE,
   raw_traceback |-> <<>>]

\* a decoding that takes the first tag of the entry for the category
decode_traceback_category_from_tags(traceback_text, add_branding) ==
  IF ~Truthy(traceback_text) \/ traceback_text.kind # "str"
  THEN InvalidTraceback(add_branding)
  ELSE
    LET clean_traceback == sanitize_traceback(traceback_text)
        error_type == extract_error_type(clean_traceback)
        error_message == extract_error_message(clean_traceback)
        mapping == get_exception_mapping(IF error_type # None THEN error_type[1] ELSE "__unknown__")
        result ==
          [error_type |-> IF error_type # None THEN error_type[1] ELSE "UnknownError",
           original_message |->
             truncate_long_message(IF error_message # None /\ error_message[1] # <<>>
                                   THEN error_message[1] ELSE <<"No message provided">>),
           simple_explanation |-> mapping.simple_explanation,
           fix_suggestion |-> mapping.fix_suggestion,
           line_number |-> extract_line_number(clean_traceback),
           file_name |-> extract_file_name(clean_traceback),
           function_name |-> extract_function_name(clean_traceback),
           tags |-> mapping.tags,
           category |-> mapping.tags[1],
           emoji |-> mapping.emoji,
           branding |-> IF add_branding THEN Some(branding) ELSE None,
           success |-> FALSE,
           raw_traceback |-> clean_traceback]
    IN IF is_syntax_error(clean_traceback)
       THEN result @@ ("syntax_details" :> parse_syntax_error_details(clean_traceback))
       ELSE result

\* a decoding that reports line 0 when the text names no line
decode_traceback_line_or_zero(traceback_text, add_branding) ==
  IF ~Truthy(traceback_text) \/ traceback_text.kind # "str"
  THEN InvalidTraceback(add_branding)
  ELSE
    LET clean_traceback == sanitize_traceback(traceback_text)
        error_type == extract_error_type(clean_traceback)
        error_message == extract_error_message(clean_traceback)
        mapping == get_exception_mapping(IF error_type # None THEN error_type[1] ELSE "__unknown__")
        result ==
          [error_type |-> IF error_type # None THEN error_type[1] ELSE "UnknownError",
           original_message |->
             truncate_long_message(IF error_message # None /\ error_message[1] # <<>>
                                   THEN error_message[1] ELSE <<"No message provided">>),
           simple_explanation |-> mapping.simple_explanation,
           fix_suggestion |-> mapping.fix_suggestion,
           line_number |-> IF extract_line_number(clean_traceback) = None THEN Some(0)
                           ELSE extract_line_number(clean_traceback),
           file_name |-> extract_file_name(clean_traceback),
           function_name |-> extract_function_name(clean_traceback),
           tags |-> mapping.tags,
           category |-> categorize_error(error_type),
           emoji |-> mapping.emoji,
           branding |-> IF add_branding THEN Some(branding) ELSE None,
           success |-> FALSE,
           raw_traceback |-> clean_traceback]
    IN IF is_syntax_error(clean_traceback)
       THEN result @@ ("syntax_details" :> parse_syntax_error_details(clean_traceback))
       ELSE result

\* a decoding that attaches syntax_details for SyntaxError and for no other class
decode_traceback_details_for_syntax_error_only(traceback_text, add_branding) ==
  IF ~Truthy(traceback_text) \/ traceback_text.kind # "str"
  THEN InvalidTraceback(add_branding)
  ELSE
    LET clean_traceback == sanitize_traceback(traceback_text)
        error_type == extract_error_type(clean_traceback)
        error_message == extract_error_message(clean_traceback)
        mapping == get_exception_mapping(IF error_type # None THEN error_type[1] ELSE "__unknown__")
        result ==
          [error_type |-> IF error_type # None THEN error_type[1] ELSE "UnknownError",
           original_message |->
             truncate_long_message(IF error_message # None /\ error_message[1] # <<>>
                                   THEN error_message[1] ELSE <<"No message provided">>),
           simple_explanation |-> mapping.simple_explanation,
           fix_suggestion |-> mapping.fix_suggestion,
           line_number |-> extract_line_number(clean_traceback),
           file_name |-> extract_file_name(clean_traceback),
           function_name |-> extract_function_name(clean_traceback),
           tags |-> mapping.tags,
           category |-> categorize_error(error_type),
           emoji |-> mapping.emoji,
           branding |-> IF add_branding THEN Some(branding) ELSE None,
           success |-> FALSE,
           raw_traceback |-> clean_traceback]
    IN IF error_type = Some("SyntaxError")
       THEN result @@ ("syntax_details" :> parse_syntax_error_details(clean_traceback))
       ELSE result

decode_traceback(traceback_text, add_branding) ==
  IF ~Truthy(traceback_text) \/ traceback_text.kind # "str"
  THEN InvalidTraceback(add_branding)
  ELSE
    LET clean_traceback == sanitize_traceback(traceback_text)
        error_type == extract_error_type(clean_traceback)
        error_message == extract_error_message(clean_traceback)
        mapping == get_exception_mapping(IF error_type # None THEN error_type[1] ELSE "__unknown__")
        result ==
          [error_type |-> IF error_type # None THEN error_type[1] ELSE "UnknownError",
           original_message |->
             truncate_long_message(IF error_message # None /\ error_message[1] # <<>>
                                   THEN error_message[1] ELSE <<"No message provided">>),
           simple_explanation |-> mapping.simple_explanation,
           fix_suggestion |-> mapping.fix_suggestion,
           line_number |-> extract_line_number(clean_traceback),
           file_name |-> extract_file_name(clean_traceback),
           function_name |-> extract_function_name(clean_traceback),
           tags |-> mapping.tags,
           category |-> categorize_error(error_type),
           emoji |-> mapping.emoji,
           branding |-> IF add_branding THEN Some(branding) ELSE None,
           success |-> FALSE,
           raw_traceback |-> clean_traceback]
    IN IF is_syntax_error(clean_traceback)
       THEN result @@ ("syntax_details" :> parse_syntax_error_details(clean_traceback))
       ELSE result

(* ---------------- rendering of diagnostics ---------------- *)

Header == <<"Traceback (most recent call last):", "\n">>

\*   File "<path>", line <N>, in <function>
FrameLine(path, n, func) ==
  <<"  ", "File \"", path, "\", line ", ToString(n), ", in ", func, "\n">>

\* the indented source excerpt under a frame header
SourceLine(src) == <<"    ", src, "\n">>

\* the terminating line as the runtime prints it: "Type: message", or the
\* bare type name when str(e) is empty
TypeLine(cls, msg) == (IF msg = <<>> THEN <<cls>> ELSE <<cls, ":", " ">> \o msg) \o <<"\n">>

\* utils.format_exception_from_object, from its contract: type name and
\* message, preceded by the frame of the exception when it has one
format_exception_from_object(e) ==
  (IF e.tb = None THEN <<>>
   ELSE Header \o FrameLine(e.tb[1].file, e.tb[1].line, e.tb[1].func))
  \o <<e.cls, ":", " ">> \o e.msg

\* the dictionary built by the guard of decode_exception
InvalidException(add_branding) ==
  [error_type |-> "InvalidInput",
   original_message |-> <<"Not a valid exception object">>,
   simple_explanation |-> "PyExplain needs a valid Exception object.",
   fix_suggestion |-> "Use decode_exception() only with exception objects from except blocks.",
   line_number |-> None,
   file_name |-> None,
   function_name |-> None,
   tags |-> <<"invalid_input">>,
   category |-> "Input Error",
   emoji |-> "emoji:warning sign",
   branding |-> IF add_branding THEN Some(branding) ELSE None,
   success |-> FALSE,
   raw_traceback |-> <<>>]

\* decode_exception without its guard
decode_exception_unguarded(exception, add_branding) ==
  decode_traceback(PyStr(format_exception_from_object(exception)), add_branding)

decode_exception(exception, add_branding) ==
  IF exception.kind # "exception" THEN InvalidException(add_branding)
  ELSE decode_traceback(PyStr(format_exception_from_object(exception)), add_branding)

\* a dispatcher that tests the truth of its input before its type
decode_truthy_first(input_data, add_branding) ==
  IF input_data.kind = "exception"
  THEN [outcome |-> "returned", ret |-> decode_exception(input_data, add_branding), raised |-> ""]
  ELSE IF input_data.kind = "str" /\ Truthy(input_data)
  THEN [outcome |-> "returned", ret |-> decode_traceback(input_data, add_branding), raised |-> ""]
  ELSE [outcome |-> "raised", ret |-> [success |-> FALSE], raised |-> "TypeError"]

\* pydecode.decode: what the call does, "returned" with a dictionary or
\* "raised" with the class of the error signalled to the caller
decode(input_data, add_branding) ==
  IF input_data.kind = "exception"
  THEN [outcome |-> "returned", ret |-> decode_exception(input_data, add_branding), raised |-> ""]
  ELSE IF input_data.kind = "str"
  THEN [outcome |-> "returned", ret |-> decode_traceback(input_data, add_branding), raised |-> ""]
  ELSE [outcome |-> "raised", ret |-> [success |-> FALSE], raised |-> "TypeError"]

(* ---------------- the snippet language run by safe_run ---------------- *)

\* one statement per line of the code text
PrintStmt(a) == [op |-> "print", name |-> "", val |-> 0, arg |-> a, cls |-> "", msg |-> <<>>]

AssignStmt(nm, v) == [op |-> "assign", name |-> nm, val |-> v, arg |-> "", cls |-> "", msg |-> <<>>]

\* print(<name>): reads a binding
PrintVarStmt(nm) == [op |-> "printvar", name |-> nm, val |-> 0, arg |-> "", cls |-> "", msg |-> <<>>]

\* raise <cls>(<msg>); sys.exit() is RaiseStmt("SystemExit", <<>>)
RaiseStmt(c, m) == [op |-> "raise", name |-> "", val |-> 0, arg |-> "", cls |-> c, msg |-> m]

\* a line the parser rejects
BadStmt == [op |-> "bad", name |-> "", val |-> 0, arg |-> "", cls |-> "", msg |-> <<>>]

\* a fault: the class and message of the raised value and the line it surfaced at
Fault(c, m, i) == Some([cls |-> c, msg |-> m, at |-> i])

\* compile(code, filename, 'exec'): None, or the syntax fault of the first bad line
\* a parser that reads the first line only
compile_first_line_only(code) ==
  IF code # <<>> /\ code[1].op = "bad" THEN Fault("SyntaxError", <<"invalid syntax">>, 1)
  ELSE None

compile(code) ==
  LET B == {i \in 1..Len(code) : code[i].op = "bad"}
  IN IF B = {} THEN None
     ELSE Fault("SyntaxError", <<"invalid syntax">>, CHOOSE i \in B : \A j \in B : i <= j)

\* exec() on a private copy: assignments never reach the caller's dictionary
exec_stmt_on_copy(st, s, i, gid, lid) ==
  CASE s.op = "print" -> [st EXCEPT !.out = @ \o <<s.arg, "\n">>]
    [] s.op = "assign" -> [st EXCEPT !.heap["D"] = (s.name :> s.val) @@ @]
    [] s.op = "printvar" ->
         IF s.name \in DOMAIN st.heap[lid]
         THEN [st EXCEPT !.out = @ \o <<ToString(st.heap[lid][s.name]), "\n">>]
         ELSE IF s.name \in DOMAIN st.heap[gid]
         THEN [st EXCEPT !.out = @ \o <<ToString(st.heap[gid][s.name]), "\n">>]
         ELSE [st EXCEPT !.fault = Fault("NameError", <<"name is not defined">>, i)]
    [] s.op = "raise" -> [st EXCEPT !.fault = Fault(s.cls, s.msg, i)]
    [] OTHER -> st

\* one statement of exec(compiled_code, globals_dict, locals_dict); gid and lid
\* name the dictionaries passed as globals and locals
exec_stmt(st, s, i, gid, lid) ==
  CASE s.op = "print" -> [st EXCEPT !.out = @ \o <<s.arg, "\n">>]
    [] s.op = "assign" -> [st EXCEPT !.heap[lid] = (s.name :> s.val) @@ @]
    [] s.op = "printvar" ->
         IF s.name \in DOMAIN st.heap[lid]
         THEN [st EXCEPT !.out = @ \o <<ToString(st.heap[lid][s.name]), "\n">>]
         ELSE IF s.name \in DOMAIN st.heap[gid]
         THEN [st EXCEPT !.out = @ \o <<ToString(st.heap[gid][s.name]), "\n">>]
         ELSE [st EXCEPT !.fault = Fault("NameError", <<"name is not defined">>, i)]
    [] s.op = "raise" -> [st EXCEPT !.fault = Fault(s.cls, s.msg, i)]
    [] OTHER -> st

\* exec() that keeps running the statements after the first fault
RECURSIVE exec_keeps_running(_, _, _, _, _)
exec_keeps_running(code, i, st, gid, lid) ==
  IF i > Len(code) THEN st
  ELSE LET n == exec_stmt(st, code[i], i, gid, lid)
       IN exec_keeps_running(code, i + 1,
                             IF st.fault # None THEN [n EXCEPT !.fault = st.fault] ELSE n,
                             gid, lid)

\* exec(): statements in order, halting at the first fault
RECURSIVE exec(_, _, _, _, _)
exec(code, i, st, gid, lid) ==
  IF i > Len(code) \/ st.fault # None THEN st
  ELSE exec(code, i + 1, exec_stmt(st, code[i], i, gid, lid), gid, lid)

\* path of core.py as it shows in the frames of safe_run itself
CoreFile == "pyexplain/core.py"

\* ''.join(traceback.format_exception(*sys.exc_info())) for a fault of compile()
format_compile_fault(f, filename) ==
  Header
  \o FrameLine(CoreFile, CompileLine, "safe_run")
  \o SourceLine("compiled_code = compile(code, filename, 'exec')")
  \o <<"  ", "File \"", filename, "\", line ", ToString(f.at), "\n">>
  \o SourceLine("<source>")
  \o <<"    ", "^", "\n">>
  \o TypeLine(f.cls, f.msg)

\* ''.join(traceback.format_exception(*sys.exc_info())) for a fault of exec()
format_exec_fault(f, filename) ==
  Header
  \o FrameLine(CoreFile, ExecLine, "safe_run")
  \o SourceLine("exec(compiled_code, globals_dict, locals_dict)")
  \o FrameLine(filename, f.at, "<module>")
  \o TypeLine(f.cls, f.msg)

\* the guard's dictionary reporting success
InvalidCode_success(add_branding) ==
  [success |-> TRUE,
   error_type |-> "InvalidInput",
   original_message |-> <<"No code provided">>,
   simple_explanation |-> "PyExplain needs valid Python code to run.",
   fix_suggestion |-> "Pass a string containing Python code to safe_run().",
   line_number |-> None,
   file_name |-> None,
   function_name |-> None,
   tags |-> <<"invalid_input">>,
   category |-> "Input Error",
   emoji |-> "emoji:warning sign",
   branding |-> IF add_branding THEN Some(branding) ELSE None,
   output |-> <<>>,
   raw_traceback |-> <<>>]

\* the dictionary built by the guard of safe_run
InvalidCode(add_branding) ==
  [success |-> FALSE,
   error_type |-> "InvalidInput",
   original_message |-> <<"No code provided">>,
   simple_explanation |-> "PyExplain needs valid Python code to run.",
   fix_suggestion |-> "Pass a string containing Python code to safe_run().",
   line_number |-> None,
   file_name |-> None,
   function_name |-> None,
   tags |-> <<"invalid_input">>,
   category |-> "Input Error",
   emoji |-> "emoji:warning sign",
   branding |-> IF add_branding THEN Some(branding) ELSE None,
   output |-> <<>>,
   raw_traceback |-> <<>>]

\* a success dictionary that reads `result` nowhere
SuccessResult_no_result(out, locals, add_branding) ==
  [success |-> TRUE,
   output |-> out,
   result |-> None,
   branding |-> IF add_branding THEN Some(branding) ELSE None,
   message |-> "Code executed successfully!"]

\* the dictionary returned when the with-block ends without a fault
SuccessResult(out, locals, add_branding) ==
  [success |-> TRUE,
   output |-> out,
   result |-> IF "result" \in DOMAIN locals THEN Some(locals["result"]) ELSE None,
   branding |-> IF add_branding THEN Some(branding) ELSE None,
   message |-> "Code executed successfully!"]

\* contextlib.redirect_stdout.__enter__: sys.stdout becomes the buffer
redirect_stdout_enter(old) == "StringIO"

\* a redirection undone only when the block ends normally
redirect_stdout_exit_no_finally(saved, current, fault) ==
  IF fault # None THEN current ELSE saved

\* contextlib.redirect_stdout.__exit__: sys.stdout after the with-block, given
\* the stream saved on entry, the stream now installed and the fault leaving
\* the block (None when it ends normally)
redirect_stdout_exit(saved, current, fault) == saved

\* a bare except clause, which also catches the flow-control signals
except_BaseException(cls) == TRUE

\* the clause  except Exception as e
except_Exception(cls) == IsExceptionSubclass(cls)

\* the dictionary seeded when no globals are supplied
\* a default namespace that starts with the bindings left in a dictionary
\* of an earlier call
DefaultGlobals_with_old_bindings(filename) ==
  ("__name__" :> "__main__") @@ ("__file__" :> filename) @@ heap["G"] @@ heap["L"]

DefaultGlobals(filename) == ("__name__" :> "__main__") @@ ("__file__" :> filename)

\* safe_run as a whole: its outcome ("returned" / "raised"), the dictionary
\* returned, the class of a fault that left it, the fault of the snippet,
\* sys.stdout and the caller's dictionaries after the call
safe_run(code, filename, globals_dict, locals_dict, add_branding, stdout0, heap0) ==
  IF ~Truthy(code) \/ code.kind # "str"
  THEN [outcome |-> "returned", ret |-> InvalidCode(add_branding), raised |-> "",
        fault |-> None, ran |-> FALSE, stdout |-> stdout0, heap |-> heap0]
  ELSE
    LET gid == IF globals_dict = None THEN "D" ELSE globals_dict[1]
        lid == IF locals_dict = None THEN gid ELSE locals_dict[1]
        h1 == heap0 @@ ("D" :> DefaultGlobals(filename))
        inside == redirect_stdout_enter(stdout0)
        cfault == compile(code.text)
        st0 == [heap |-> h1, out |-> <<>>, fault |-> cfault]
        st == IF cfault # None THEN st0 ELSE exec(code.text, 1, st0, gid, lid)
        after == redirect_stdout_exit(stdout0, inside, st.fault)
        h2 == [d \in DOMAIN heap0 |-> st.heap[d]]
        text == IF cfault # None THEN format_compile_fault(st.fault[1], filename)
                ELSE format_exec_fault(st.fault[1], filename)
    IN IF st.fault = None
       THEN [outcome |-> "returned", ret |-> SuccessResult(st.out, st.heap[lid], add_branding),
             raised |-> "", fault |-> None, ran |-> TRUE, stdout |-> after, heap |-> h2]
       ELSE IF except_Exception(st.fault[1].cls)
       THEN [outcome |-> "returned",
             ret |-> ("output" :> st.out) @@ decode_traceback(PyStr(text), add_branding),
             raised |-> "", fault |-> st.fault, ran |-> TRUE, stdout |-> after, heap |-> h2]
       ELSE [outcome |-> "raised", ret |-> [success |-> FALSE], raised |-> st.fault[1].cls,
             fault |-> st.fault, ran |-> TRUE, stdout |-> after, heap |-> h2]

(* ---------------- format_decoded_output of pyexplain/core.py ---------------- *)

\* the escape codes of the formatter, each the empty string when color is off
RED(color) == IF color THEN <<"\\033[91m">> ELSE <<>>

GREEN(color) == IF color THEN <<"\\033[92m">> ELSE <<>>

YELLOW(color) == IF color THEN <<"\\033[93m">> ELSE <<>>

CYAN(color) == IF color THEN <<"\\033[96m">> ELSE <<>>

MAGENTA(color) == IF color THEN <<"\\033[95m">> ELSE <<>>

BLUE(color) == IF color THEN <<"\\033[94m">> ELSE <<>>

\* a reset code that is written whether color is on or off
RESET_always(color) == <<"\\033[0m">>

RESET(color) == IF color THEN <<"\\033[0m">> ELSE <<>>

BOLD(color) == IF color THEN <<"\\033[1m">> ELSE <<>>

\* a test that takes every value for a dictionary
IsDict_any(v) == TRUE

\* isinstance(v, dict): a dictionary is a record of its keys, and no
\* dictionary of the library has a key "kind"
IsDict(v) == "kind" \notin DOMAIN v

\* dict.get(k, default)
Get(d, k, default) == IF k \in DOMAIN d THEN d[k] ELSE default

\* '\n'.join(lines)
RECURSIVE JoinLines(_)
JoinLines(lines) ==
  IF lines = <<>> THEN <<>>
  ELSE IF Len(lines) = 1 THEN lines[1]
  ELSE lines[1] \o <<"\n">> \o JoinLines(Tail(lines))

\* ', '.join(tags)
RECURSIVE JoinTags(_)
JoinTags(tags) ==
  IF tags = <<>> THEN <<>>
  ELSE IF Len(tags) = 1 THEN <<tags[1]>>
  ELSE <<tags[1], ", ">> \o JoinTags(Tail(tags))

\* a formatter that writes the technical block whatever the caller asked for
format_decoded_output_always_technical(decoded, include_technical, color) ==
  IF ~IsDict(decoded) \/ DOMAIN decoded = {} THEN <<"Invalid decoded data">>
  ELSE
    LET error_type == Get(decoded, "error_type", "Error")
        emoji == Get(decoded, "emoji", "emoji:warning sign")
        file_name == Get(decoded, "file_name", None)
        line_number == Get(decoded, "line_number", None)
        function_name == Get(decoded, "function_name", None)
        has_file == file_name # None /\ file_name[1] # ""
        has_line == line_number # None /\ line_number[1] # 0
        has_function == function_name # None /\ function_name[1] # ""
        brand == Get(decoded, "branding", None)
        head ==
          << <<>>,
             <<"box:top">>,
             <<"box:side", "  ">> \o BOLD(color) \o RED(color) \o <<emoji, " ", error_type>>
               \o RESET(color) \o <<"padding", "box:side">>,
             <<"box:bottom">>,
             <<>>,
             BOLD(color) \o CYAN(color) \o <<"Simple Explanation:">> \o RESET(color),
             <<Get(decoded, "simple_explanation", "No explanation available")>>,
             <<>>,
             BOLD(color) \o GREEN(color) \o <<"How to Fix:">> \o RESET(color),
             <<Get(decoded, "fix_suggestion", "No suggestion available")>>,
             <<>> >>
        location ==
          IF has_file \/ has_line
          THEN << BOLD(color) \o YELLOW(color) \o <<"Error Location:">> \o RESET(color) >>
               \o (IF has_file THEN << <<"   File: ", file_name[1]>> >> ELSE <<>>)
               \o (IF has_line THEN << <<"   Line: ", ToString(line_number[1])>> >> ELSE <<>>)
               \o (IF has_function THEN << <<"   Function: ", function_name[1]>> >> ELSE <<>>)
               \o << <<>> >>
          ELSE <<>>
        technical ==
          IF include_technical \/ decoded # <<>>
          THEN << BOLD(color) \o MAGENTA(color) \o <<"Technical Details:">> \o RESET(color),
                  <<"   Category: ", Get(decoded, "category", "Unknown")>>,
                  <<"   Original Message: ">> \o Get(decoded, "original_message", <<"N/A">>),
                  <<"   Tags: ">> \o JoinTags(Get(decoded, "tags", <<>>)),
                  <<>> >>
          ELSE <<>>
        footer ==
          IF brand # None /\ brand[1] # ""
          THEN << <<"rule">>,
                  BOLD(color) \o BLUE(color) \o <<brand[1]>> \o RESET(color),
                  <<>> >>
          ELSE <<>>
    IN JoinLines(head \o location \o technical \o footer)

\* the box and the rule are one token each, and so is the padding of the
\* header line, " " * (66 - len(error_type))
format_decoded_output(decoded, include_technical, color) ==
  IF ~IsDict(decoded) \/ DOMAIN decoded = {} THEN <<"Invalid decoded data">>
  ELSE
    LET error_type == Get(decoded, "error_type", "Error")
        emoji == Get(decoded, "emoji", "emoji:warning sign")
        file_name == Get(decoded, "file_name", None)
        line_number == Get(decoded, "line_number", None)
        function_name == Get(decoded, "function_name", None)
        has_file == file_name # None /\ file_name[1] # ""
        has_line == line_number # None /\ line_number[1] # 0
        has_function == function_name # None /\ function_name[1] # ""
        brand == Get(decoded, "branding", None)
        head ==
          << <<>>,
             <<"box:top">>,
             <<"box:side", "  ">> \o BOLD(color) \o RED(color) \o <<emoji, " ", error_type>>
               \o RESET(color) \o <<"padding", "box:side">>,
             <<"box:bottom">>,
             <<>>,
             BOLD(color) \o CYAN(color) \o <<"Simple Explanation:">> \o RESET(color),
             <<Get(decoded, "simple_explanation", "No explanation available")>>,
             <<>>,
             BOLD(color) \o GREEN(color) \o <<"How to Fix:">> \o RESET(color),
             <<Get(decoded, "fix_suggestion", "No suggestion available")>>,
             <<>> >>
        location ==
          IF has_file \/ has_line
          THEN << BOLD(color) \o YELLOW(color) \o <<"Error Location:">> \o RESET(color) >>
               \o (IF has_file THEN << <<"   File: ", file_name[1]>> >> ELSE <<>>)
               \o (IF has_line THEN << <<"   Line: ", ToString(line_number[1])>> >> ELSE <<>>)
               \o (IF has_function THEN << <<"   Function: ", function_name[1]>> >> ELSE <<>>)
               \o << <<>> >>
          ELSE <<>>
        technical ==
          IF include_technical
          THEN << BOLD(color) \o MAGENTA(color) \o <<"Technical Details:">> \o RESET(color),
                  <<"   Category: ", Get(decoded, "category", "Unknown")>>,
                  <<"   Original Message: ">> \o Get(decoded, "original_message", <<"N/A">>),
                  <<"   Tags: ">> \o JoinTags(Get(decoded, "tags", <<>>)),
                  <<>> >>
          ELSE <<>>
        footer ==
          IF brand # None /\ brand[1] # ""
          THEN << <<"rule">>,
                  BOLD(color) \o BLUE(color) \o <<brand[1]>> \o RESET(color),
                  <<>> >>
          ELSE <<>>
    IN JoinLines(head \o location \o technical \o footer)

\* a formatter that stores each default it falls back to in the dictionary
\* (dict.setdefault)
decoded_after_setdefault(decoded, include_technical, color) ==
  IF ~IsDict(decoded) \/ DOMAIN decoded = {} THEN decoded
  ELSE [k \in DOMAIN decoded \cup {"error_type"} |->
          IF k \in DOMAIN decoded THEN decoded[k] ELSE "Error"]

\* the dictionary handed to format_decoded_output after the call: the
\* function reads it with dict.get and subscripts and stores nothing in it
decoded_after_format(decoded, include_technical, color) == decoded


(* ---------------- inputs of the exploration ---------------- *)

\* statement forms a snippet is made of
StmtShapes == {"print_a", "print_b", "result=2", "print(result)", "raise", "bad"}

\* the faults a snippet's raise statement signals: one with a message, one
\* without, and an exit request
Raised ==
  {[cls |-> "ValueError", msg |-> <<"m">>],
   [cls |-> "ValueError", msg |-> <<>>],
   [cls |-> "SystemExit", msg |-> <<>>]}

\* the exception values handed to decode_exception: also a message of two
\* lines and a class the table does not know
Exceptions ==
  Raised \cup
  {[cls |-> "ValueError", msg |-> <<"m", "\n", "Note", ":", " ", "m">>],
   [cls |-> "MyError", msg |-> <<"m">>]}

\* the value the assignments of the snippets bind
AssignedValue == 2

StmtOf(shape, e) ==
  CASE shape = "print_a" -> PrintStmt("a")
    [] shape = "print_b" -> PrintStmt("b")
    [] shape = "result=2" -> AssignStmt("result", AssignedValue)
    [] shape = "print(result)" -> PrintVarStmt("result")
    [] shape = "raise" -> RaiseStmt(e.cls, e.msg)
    [] OTHER -> BadStmt

\* the snippets of at most MaxStmts lines with at most one statement that
\* faults by itself (execution ends at the first fault)
Shapes ==
  {s \in UNION {[1..n -> StmtShapes] : n \in 1..MaxStmts} :
     Cardinality({i \in 1..Len(s) : s[i] \in {"raise", "bad"}}) <= 1}

\* the code text of a shape whose raise statements signal e
Snippet(shape, e) == PyStr([i \in 1..Len(shape) |-> StmtOf(shape[i], e)])

NonText == {PyNone, PyInt(0), PyInt(5)}

\* the values handed to safe_run as code
CodeInputs == NonText \cup {PyStr(<<>>)} \cup {Snippet(s, e) : s \in Shapes, e \in Raised}

FileNames == {"<string>", "custom_script.py"}

Streams == {"console", "logfile"}

\* diagnostic texts handed to decode_traceback
SampleTracebacks ==
  {Header \o FrameLine("test.py", 5, "<module>") \o SourceLine("x = int('abc')") \o <<"ValueError", ":", " ", "m", ":", " ", "m">>,
   Header \o FrameLine("calc.py", 3, "<module>") \o FrameLine("calc.py", 10, "divide")
     \o SourceLine("result = a / b") \o <<"ZeroDivisionError", ":", " ", "m">>,
   <<"  ", "File \"", "syntax_test.py", "\", line ", "5", "\n">> \o SourceLine("if x == 5")
     \o <<"    ", "^", "\n", "SyntaxError", ":", " ", "m">>,
   <<"  ", "File \"", "indent_test.py", "\", line ", "8", "\n">> \o SourceLine("return result")
     \o <<"    ", "^", "\n", "IndentationError", ":", " ", "m">>,
   <<"ZeroDivisionError", ":", " ", "m">>,
   Header \o FrameLine("test.py", 5, "<module>") \o SourceLine("print(undefined_variable)")
     \o <<"NameError", ":", " ", "m">>,
   Header \o FrameLine("test.py", 5, "<module>") \o SourceLine("result = 'hello' + 5")
     \o <<"TypeError", ":", " ", "m">>,
   <<ESC, "MyError", ":", " ", "m", ESC, "\n">>,
   <<"m", " ", "m">>,
   <<" ", "\n">>,
   <<ESC>>}

TracebackInputs == NonText \cup {PyStr(<<>>)} \cup {PyStr(t) : t \in SampleTracebacks}

ExceptionInputs ==
  {PyExc(e.cls, e.msg, tb) :
     e \in Exceptions, tb \in {None, Some([file |-> "test.py", line |-> 5, func |-> "divide"])}}
  \cup NonText \cup {PyStr(<<"m">>)}

\* longest diagnostic handed to the extractors, in lines
MaxLines == 3

\* the lines such a diagnostic is made of: a frame header at top level and
\* one inside a function, a type line whose message holds a colon and a
\* space, a type line of another class, a line of plain words, and the
\* file/line header of a syntax-class diagnostic
FrameAt(file, line, func) ==
  [kind |-> "frame", file |-> file, line |-> line, func |-> func, cls |-> "", msg |-> <<>>]

TypeOf(cls, msg) ==
  [kind |-> "type", file |-> "", line |-> 0, func |-> "", cls |-> cls, msg |-> msg]

Words == [kind |-> "words", file |-> "", line |-> 0, func |-> "", cls |-> "", msg |-> <<"m", " ", "m">>]

SyntaxHeader(file, line) ==
  [kind |-> "syntax", file |-> file, line |-> line, func |-> "", cls |-> "", msg |-> <<>>]

DiagLines ==
  {FrameAt("calc.py", 3, "<module>"), FrameAt("calc.py", 10, "divide"),
   TypeOf("ValueError", <<"m", ":", " ", "m">>), TypeOf("NameError", <<"m">>),
   Words, SyntaxHeader("syntax_test.py", 5)}

\* the text of one line, without its line break
RenderLine(l) ==
  CASE l.kind = "frame" -> <<"  ", "File \"", l.file, "\", line ", ToString(l.line), ", in ", l.func>>
    [] l.kind = "type" -> <<l.cls, ":", " ">> \o l.msg
    [] l.kind = "syntax" -> <<"  ", "File \"", l.file, "\", line ", ToString(l.line)>>
    [] OTHER -> l.msg

\* the text of a diagnostic, its lines joined by line breaks
RECURSIVE RenderDiag(_)
RenderDiag(d) ==
  IF d = <<>> THEN <<>>
  ELSE IF Len(d) = 1 THEN RenderLine(d[1])
  ELSE RenderLine(d[1]) \o <<"\n">> \o RenderDiag(Tail(d))

\* the diagnostics of at most MaxLines lines, the empty one among them
Diagnostics == UNION {[1..n -> DiagLines] : n \in 0..MaxLines}

\* the names handed to categorize_error
CategorizeInputs == {PyStr(<<n>>) : n \in ErrorNames \cup {"UnknownError"}} \cup {PyStr(<<>>)}

\* longest text handed to sanitize_traceback by itself, in tokens
MaxChars == 4

\* what those texts are made of: a space, a line break, an escape sequence
\* and a word
SanitizeAlphabet == {" ", "\n", ESC, "m"}

\* two indented lines with trailing spaces and a final line break
TwoPaddedLines == <<"  ", "m", "  ", "\n", "  ", "m", "  ", "\n">>

SanitizeInputs ==
  NonText \cup {PyStr(TwoPaddedLines)}
    \cup {PyStr(t) : t \in UNION {[1..n -> SanitizeAlphabet] : n \in 0..MaxChars}}

(* ---------------- the state machine ---------------- *)

\* the name decode_traceback looks up in the table for this text; None when
\* the guard on the argument returns before any lookup
looked_up(traceback_text) ==
  IF ~Truthy(traceback_text) \/ traceback_text.kind # "str" THEN None
  ELSE LET error_type == extract_error_type(sanitize_traceback(traceback_text))
       IN Some(IF error_type # None THEN error_type[1] ELSE "__unknown__")

\* the text a call hands to decode_traceback, PyNone when it hands it none;
\* r is what the call gave back (safe_run keeps the text it decoded in
\* raw_traceback)
DecodedText(op, arg, r) ==
  CASE op \in {"decode_traceback", "decode"} /\ arg.kind = "str" -> arg
    [] op \in {"decode_exception", "decode"} /\ arg.kind = "exception" ->
         PyStr(format_exception_from_object(arg))
    [] op = "safe_run" /\ r.outcome = "returned" /\ r.fault # None -> PyStr(r.ret.raw_traceback)
    [] OTHER -> PyNone

\* the name a call looks up in the table, None when it looks up none
Looked(op, arg, r) ==
  IF op = "get_exception_mapping" THEN Some(KeyOf(arg))
  ELSE looked_up(DecodedText(op, arg, r))

\* the key of the table whose entry a call that looked up name has read
EntryKey(name) ==
  IF name = None THEN None
  ELSE Some(IF name[1] \in DOMAIN table THEN name[1] ELSE "__unknown__")

\* what the caller holds after a call; looked is the name the call looked up
\* in the table and entry the key of the entry it read, whose tags list is
\* the list object the result holds
Call(op, arg, opts, r, stdout0, heap0) ==
  [op |-> op, arg |-> arg, opts |-> opts, outcome |-> r.outcome, ret |-> r.ret,
   raised |-> r.raised, fault |-> r.fault, ran |-> r.ran,
   stdout_before |-> stdout0, heap_before |-> heap0,
   stdout_after |-> r.stdout, heap_after |-> r.heap,
   looked |-> Looked(op, arg, r),
   entry |-> EntryKey(Looked(op, arg, r))]

Opts(filename, g, l, b) ==
  [filename |-> filename, globals_dict |-> g, locals_dict |-> l, add_branding |-> b]

\* the outcome of a call that returns ret and touches neither sys.stdout nor
\* a dictionary of the caller
Pure(ret, stdout0, heap0) ==
  [outcome |-> "returned", ret |-> ret, raised |-> "", fault |-> None, ran |-> FALSE,
   stdout |-> stdout0, heap |-> heap0]

Idle ==
  [op |-> "idle", arg |-> PyNone, opts |-> Opts("<string>", None, None, TRUE),
   outcome |-> "returned", ret |-> [success |-> FALSE], raised |-> "", fault |-> None,
   ran |-> FALSE, stdout_before |-> "console", heap_before |-> [d \in {"G", "L"} |-> <<>>],
   stdout_after |-> "console", heap_after |-> [d \in {"G", "L"} |-> <<>>],
   looked |-> None, entry |-> None]

Init ==
  /\ sys_stdout = "console"
  /\ heap = [d \in {"G", "L"} |-> <<>>]
  /\ call = Idle
  /\ table = EXCEPTION_MAPPINGS

DecodeTraceback ==
  /\ call.op = "idle"
  /\ \E t \in TracebackInputs, b \in BOOLEAN :
       call' = Call("decode_traceback", t, Opts("<string>", None, None, b),
                    Pure(decode_traceback(t, b), sys_stdout, heap), sys_stdout, heap)
  /\ table' = table_after_get(call'.looked)
  /\ UNCHANGED <<sys_stdout, heap>>

DecodeException ==
  /\ call.op = "idle"
  /\ \E e \in ExceptionInputs, b \in BOOLEAN :
       call' = Call("decode_exception", e, Opts("<string>", None, None, b),
                    Pure(decode_exception(e, b), sys_stdout, heap), sys_stdout, heap)
  /\ table' = table_after_get(call'.looked)
  /\ UNCHANGED <<sys_stdout, heap>>

Decode ==
  /\ call.op = "idle"
  /\ \E x \in TracebackInputs \cup ExceptionInputs, b \in BOOLEAN :
       call' = Call("decode", x, Opts("<string>", None, None, b),
                    decode(x, b) @@ [fault |-> None, ran |-> FALSE, stdout |-> sys_stdout, heap |-> heap],
                    sys_stdout, heap)
  /\ table' = table_after_get(call'.looked)
  /\ UNCHANGED <<sys_stdout, heap>>

SafeRun ==
  /\ call.op = "idle"
  /\ \E code \in CodeInputs,
        f \in FileNames, g \in {None, Some("G")}, l \in {None, Some("L")}, b \in BOOLEAN :
       call' = Call("safe_run", code, Opts(f, g, l, b),
                    safe_run(code, f, g, l, b, sys_stdout, heap), sys_stdout, heap)
  /\ sys_stdout' = call'.stdout_after
  /\ heap' = call'.heap_after
  /\ table' = table_after_get(call'.looked)

\* the inputs of get_exception_mapping: the names of the table, names it
\* does not hold, the empty string and None
LookupInputs ==
  {PyNone, PyStr(<<>>)}
    \cup {PyStr(<<n>>) : n \in DOMAIN EXCEPTION_MAPPINGS \cup ErrorNames \cup {"UnknownError"}}

Lookup ==
  /\ call.op = "idle"
  /\ \E v \in LookupInputs :
       call' = Call("get_exception_mapping", v, Opts("<string>", None, None, FALSE),
                    Pure(get_exception_mapping_of(v), sys_stdout, heap), sys_stdout, heap)
  /\ table' = table_after_get(call'.looked)
  /\ UNCHANGED <<sys_stdout, heap>>

\* a direct call of categorize_error with a name
Categorize ==
  /\ call.op = "idle"
  /\ \E v \in CategorizeInputs :
       call' = Call("categorize_error", v, Opts("<string>", None, None, FALSE),
                    Pure(categorize_error(Some(KeyOf(v))), sys_stdout, heap), sys_stdout, heap)
  /\ table' = table_after_get(call'.looked)
  /\ UNCHANGED <<sys_stdout, heap>>

\* the five extractors applied to one text
extract_all(t) ==
  [error_type |-> extract_error_type(t),
   error_message |-> extract_error_message(t),
   line_number |-> extract_line_number(t),
   file_name |-> extract_file_name(t),
   function_name |-> extract_function_name(t)]

\* direct calls of the extractors with the text of a diagnostic, or with None
\* in place of a text; the call keeps the lines the text was made of
Extract ==
  /\ call.op = "idle"
  /\ \E d \in Diagnostics, absent \in BOOLEAN :
       /\ absent => d = <<>>
       /\ call' = Call("extract", IF absent THEN PyNone ELSE PyStr(RenderDiag(d)), [diag |-> d],
                       Pure(extract_all(RenderDiag(d)), sys_stdout, heap), sys_stdout, heap)
  /\ table' = table_after_get(call'.looked)
  /\ UNCHANGED <<sys_stdout, heap>>

SanitizeOpts(again) == [again |-> again]

\* a direct call of sanitize_traceback
Sanitize ==
  /\ call.op = "idle"
  /\ \E v \in SanitizeInputs :
       call' = Call("sanitize_traceback", v, SanitizeOpts(FALSE),
                    Pure(sanitize_traceback(v), sys_stdout, heap), sys_stdout, heap)
  /\ table' = table_after_get(call'.looked)
  /\ UNCHANGED <<sys_stdout, heap>>

\* the caller hands the text sanitize_traceback returned to it once more
SanitizeAgain ==
  /\ call.op = "sanitize_traceback" /\ ~call.opts.again
  /\ call' = Call("sanitize_traceback", PyStr(call.ret), SanitizeOpts(TRUE),
                  Pure(sanitize_traceback(PyStr(call.ret)), sys_stdout, heap), sys_stdout, heap)
  /\ table' = table_after_get(call'.looked)
  /\ UNCHANGED <<sys_stdout, heap>>

FormatOpts(include_technical, color) ==
  [include_technical |-> include_technical, color |-> color]

\* the values that are no dictionary handed to format_decoded_output
FormatValues == NonText \cup {PyStr(<<>>), PyStr(<<"m">>)}

\* the empty dictionary
EmptyDict == <<>>

\* the caller formats the dictionary the last call returned
Format ==
  /\ call.op \in {"decode_traceback", "decode_exception", "decode", "safe_run"}
  /\ call.outcome = "returned"
  /\ \E include_technical \in BOOLEAN, color \in BOOLEAN :
       call' = Call("format_decoded_output",
                    decoded_after_format(call.ret, include_technical, color),
                    FormatOpts(include_technical, color) @@ [given |-> call.ret],
                    Pure(format_decoded_output(call.ret, include_technical, color), sys_stdout, heap),
                    sys_stdout, heap)
  /\ table' = table_after_get(call'.looked)
  /\ UNCHANGED <<sys_stdout, heap>>

\* the caller formats a value that is no dictionary, or the empty dictionary
FormatValue ==
  /\ call.op = "idle"
  /\ \E include_technical \in BOOLEAN, color \in BOOLEAN :
       \/ \E v \in FormatValues :
            call' = Call("format_decoded_output", v,
                         FormatOpts(include_technical, color) @@ [given |-> v],
                         Pure(format_decoded_output(v, include_technical, color), sys_stdout, heap),
                         sys_stdout, heap)
       \/ call' = Call("format_decoded_output", EmptyDict,
                       FormatOpts(include_technical, color) @@ [given |-> EmptyDict],
                       Pure(format_decoded_output(EmptyDict, include_technical, color), sys_stdout, heap),
                       sys_stdout, heap)
  /\ table' = table_after_get(call'.looked)
  /\ UNCHANGED <<sys_stdout, heap>>

\* the caller installs another stream as sys.stdout
SetStdout ==
  /\ call.op = "idle"
  /\ \E s \in Streams : sys_stdout' = s
  /\ UNCHANGED <<heap, call, table>>

\* the caller drops the result of the last call
Discard ==
  /\ call.op # "idle"
  /\ call' = Idle
  /\ UNCHANGED <<sys_stdout, heap, table>>

\* the tag a caller adds to the tags list of a result it holds
CallerTag == "mine"

\* how many tags callers may add in all
MaxAppends == 1

\* the positions of a tags list that hold a tag added by a caller
Appended(tags) == {i \in 1..Len(tags) : tags[i] = CallerTag}

\* the tags of the table that were added by a caller
TableAppends == UNION {{<<k, i>> : i \in Appended(table[k].tags)} : k \in DOMAIN table}

\* the caller runs  result["tags"].append(CallerTag)  on the dictionary the
\* last call returned: the list it appends to is the list object the call
\* put into the dictionary, which for an entry read from the table is the
\* list held by the table
AppendTag ==
  /\ call.op \in {"decode_traceback", "decode_exception", "decode", "get_exception_mapping"}
  /\ call.outcome = "returned"
  /\ Appended(call.ret.tags) = {}
  /\ Cardinality(TableAppends) < MaxAppends
  /\ call' = [call EXCEPT !.ret.tags = Append(@, CallerTag)]
  /\ table' = IF call.entry = None THEN table
              ELSE [table EXCEPT ![call.entry[1]].tags = Append(@, CallerTag)]
  /\ UNCHANGED <<sys_stdout, heap>>

Next ==
  \/ DecodeTraceback \/ DecodeException \/ Decode \/ SafeRun
  \/ Lookup \/ Categorize \/ Extract \/ Sanitize \/ SanitizeAgain
  \/ Format \/ FormatValue \/ SetStdout \/ Discard

Spec == Init /\ [][Next]_vars

\* the decoding operations with a caller that changes the results it holds
NextCaller ==
  \/ DecodeTraceback \/ DecodeException \/ Decode \/ Lookup \/ AppendTag \/ Discard

SpecCaller == Init /\ [][NextCaller]_vars

(* ---------------- properties ---------------- *)

\* the last call was safe_run and it returned a dictionary
SafeRunReturned == call.op = "safe_run" /\ call.outcome = "returned"

\* the code text of the last call has no line the parser rejects
Compiles == \A i \in 1..Len(call.arg.text) : call.arg.text[i].op # "bad"

\* what one statement that ran without a fault wrote to standard output
WrittenBy(s) ==
  CASE s.op = "print" -> <<s.arg, "\n">>
    [] s.op = "printvar" -> <<ToString(AssignedValue), "\n">>
    [] OTHER -> <<>>

\* what the first n statements of a snippet write when none of them faults
RECURSIVE Written(_, _)
Written(code, n) ==
  IF n = 0 THEN <<>> ELSE Written(code, n - 1) \o WrittenBy(code[n])

\* the dictionary the snippet of the last call ran in as its locals, "D" being
\* the one safe_run made itself
LocalsOfCall ==
  IF call.opts.locals_dict # None THEN call.opts.locals_dict[1]
  ELSE IF call.opts.globals_dict # None THEN call.opts.globals_dict[1]
  ELSE "D"

\* C1: when the snippet faults at a statement, the output field holds what
\* the statements before it wrote and nothing a later statement prints; a
\* snippet that does not compile ran no statement and has no output
C1_OutputStopsAtFault ==
  (SafeRunReturned /\ call.fault # None) =>
    call.ret.output = IF Compiles THEN Written(call.arg.text, call.fault[1].at - 1) ELSE <<>>

\* a fault between two print statements of different texts
C1_Witness ==
  /\ SafeRunReturned /\ call.fault # None /\ Compiles
  /\ Len(call.arg.text) = 3 /\ call.fault[1].at = 2
  /\ call.arg.text[1].op = "print" /\ call.arg.text[3].op = "print"
  /\ call.arg.text[1].arg # call.arg.text[3].arg
  /\ call.ret.output = <<call.arg.text[1].arg, "\n">>

\* C2: after safe_run, on whatever path it was left, sys.stdout is the stream
\* that was installed before the call
C2_StdoutRestored ==
  call.op = "safe_run" => sys_stdout = call.stdout_before /\ sys_stdout # "StringIO"

\* an exit request left safe_run while the caller's own stream was installed
C2_Witness ==
  /\ call.op = "safe_run" /\ call.outcome = "raised"
  /\ call.stdout_before = "logfile" /\ sys_stdout = "logfile"

\* C3 as stated: whatever the snippet raises, safe_run returns a dictionary
\* with success = false and nothing propagates
C3_AllFaultsReturned ==
  (call.op = "safe_run" /\ call.fault # None) =>
    call.outcome = "returned" /\ call.ret.success = FALSE

\* C3, amended: a fault of a class deriving from Exception is returned as a
\* dictionary with success = false; a flow-control signal (SystemExit, ...)
\* is not caught and leaves safe_run
C3_ExceptionsReturnedSignalsPropagate ==
  (call.op = "safe_run" /\ call.fault # None) =>
    IF IsExceptionSubclass(call.fault[1].cls)
    THEN call.outcome = "returned" /\ call.ret.success = FALSE
    ELSE call.outcome = "raised" /\ call.raised = call.fault[1].cls

\* the snippet's own raise statement, returned as a failure
C3_Witness ==
  /\ SafeRunReturned /\ call.fault # None
  /\ call.arg.text[call.fault[1].at].op = "raise"
  /\ call.ret.success = FALSE

RequiredFields == {"error_type", "tags", "category", "emoji", "success"}

ReturnedResult ==
  call.op \in {"decode_traceback", "decode_exception", "safe_run"} /\ call.outcome = "returned"

\* C4 as stated: every result, success or failure, carries error_type, a
\* non-empty tags, category, emoji and success
C4_EveryResultHasFields ==
  ReturnedResult =>
    RequiredFields \subseteq DOMAIN call.ret /\ call.ret.tags # <<>>

\* C4, amended: every result with success = false carries the five fields
\* with a non-empty tags; the success result of safe_run carries exactly
\* success, output, result, branding and message
C4_FailureResultsHaveFields ==
  ReturnedResult =>
    /\ "success" \in DOMAIN call.ret
    /\ ~call.ret.success =>
         RequiredFields \subseteq DOMAIN call.ret /\ call.ret.tags # <<>>
    /\ call.ret.success =>
         DOMAIN call.ret = {"success", "output", "result", "branding", "message"}

\* an invalid-input result of decode_traceback with its tag
C4_Witness ==
  /\ call.op = "decode_traceback" /\ call.ret.error_type = "InvalidInput"
  /\ call.ret.tags = <<"invalid_input">>

\* C5: success is false in every result of decode_traceback and
\* decode_exception, and in safe_run it is true exactly when the code was a
\* non-empty text that compiled and ran to its end without a fault
C5_SuccessOnlyOnCompletion ==
  /\ (call.op \in {"decode_traceback", "decode_exception"}) => call.ret.success = FALSE
  /\ SafeRunReturned =>
       (call.ret.success <=>
          /\ call.arg.kind = "str" /\ call.arg.text # <<>>
          /\ Compiles /\ call.fault = None)

\* rejected code: a failure although no fault occurred
C5_Witness ==
  /\ SafeRunReturned /\ call.arg.kind = "str" /\ call.arg.text = <<>>
  /\ call.fault = None /\ call.ret.success = FALSE

\* the request of the last call is malformed
Malformed ==
  \/ call.op \in {"decode_traceback", "safe_run"}
       /\ (call.arg.kind # "str" \/ call.arg.text = <<>>)
  \/ call.op = "decode_exception" /\ call.arg.kind # "exception"

\* C6: a malformed request is answered by a returned InvalidInput result with
\* success = false, empty raw_traceback and no location; safe_run then also
\* has an empty output, compiles and runs nothing and leaves the caller's
\* dictionaries as they were
C6_MalformedReturnedAsValue ==
  Malformed =>
    /\ call.outcome = "returned"
    /\ call.ret.error_type = "InvalidInput"
    /\ call.ret.success = FALSE
    /\ call.ret.raw_traceback = <<>>
    /\ call.ret.line_number = None
    /\ call.ret.file_name = None
    /\ call.ret.function_name = None
    /\ call.op = "safe_run" =>
         call.ret.output = <<>> /\ ~call.ran /\ heap = call.heap_before

\* decode_exception handed a text
C6_Witness ==
  /\ call.op = "decode_exception" /\ call.arg.kind = "str"
  /\ call.outcome = "returned" /\ call.ret.error_type = "InvalidInput"

\* C7: decode returns what decode_exception returns for a fault value and
\* what decode_traceback returns for a text, the empty text included, and
\* for any other value it raises and returns nothing
C7_DecodeDispatch ==
  call.op = "decode" =>
    CASE call.arg.kind = "exception" ->
           /\ call.outcome = "returned"
           /\ call.ret = decode_exception(call.arg, call.opts.add_branding)
      [] call.arg.kind = "str" ->
           /\ call.outcome = "returned"
           /\ call.ret = decode_traceback(call.arg, call.opts.add_branding)
      [] OTHER -> call.outcome = "raised" /\ call.raised = "TypeError"

\* decode("") is answered like decode_traceback("")
C7_Witness ==
  /\ call.op = "decode" /\ call.arg = PyStr(<<>>)
  /\ call.outcome = "returned" /\ call.ret.error_type = "InvalidInput"

\* C8: when the snippet compiles and runs to its end, safe_run returns
\* success = true, the whole of what the snippet wrote as output, the value
\* bound to `result` in the dictionary the snippet ran in as its locals
\* (None when there is none), the optional branding and the fixed message
C8_SuccessResult ==
  (SafeRunReturned /\ call.ret.success) =>
    /\ call.ret.output = Written(call.arg.text, Len(call.arg.text))
    /\ call.ret.result =
         IF \/ \E i \in 1..Len(call.arg.text) :
                 call.arg.text[i].op = "assign" /\ call.arg.text[i].name = "result"
            \/ LocalsOfCall # "D" /\ "result" \in DOMAIN call.heap_before[LocalsOfCall]
         THEN Some(AssignedValue) ELSE None
    /\ call.ret.branding = IF call.opts.add_branding THEN Some(branding) ELSE None
    /\ call.ret.message = "Code executed successfully!"

\* a snippet that prints and binds result, run in a dictionary of its own
C8_Witness ==
  /\ SafeRunReturned /\ call.ret.success
  /\ LocalsOfCall = "D"
  /\ call.ret.result = Some(AssignedValue)
  /\ call.ret.output = <<"a", "\n">>

\* the statements of the last call's snippet that ran to their end
Executed ==
  IF ~call.ran \/ ~Compiles THEN {}
  ELSE {i \in 1..Len(call.arg.text) : call.fault = None \/ i < call.fault[1].at}

\* C9: after safe_run ran a snippet in a dictionary of the caller, every
\* binding made by a statement of the snippet that ran is in that
\* dictionary, and a snippet run in a dictionary that binds a name reads it
\* without a NameError
C9_BindingsPersist ==
  (call.op = "safe_run" /\ LocalsOfCall # "D") =>
    /\ \A i \in Executed :
         call.arg.text[i].op = "assign" =>
           /\ call.arg.text[i].name \in DOMAIN heap[LocalsOfCall]
           /\ heap[LocalsOfCall][call.arg.text[i].name] = call.arg.text[i].val
    /\ \A i \in 1..Len(call.arg.text) :
         (/\ call.ran /\ Compiles
          /\ call.arg.text[i].op = "printvar"
          /\ call.arg.text[i].name \in DOMAIN call.heap_before[LocalsOfCall]) =>
           (call.fault = None \/ call.fault[1].at # i)

\* a later call reads, in the caller's globals, the binding an earlier call
\* left there
C9_Witness ==
  /\ SafeRunReturned /\ call.ret.success
  /\ call.opts.globals_dict = Some("G") /\ call.opts.locals_dict = None
  /\ "result" \in DOMAIN call.heap_before["G"]
  /\ call.arg.text = <<PrintVarStmt("result")>>
  /\ call.ret.output = <<ToString(AssignedValue), "\n">>

\* C10: the error_type of a decoded live exception is the name of its class,
\* whatever the class and the message
C10_ErrorTypeIsClassName ==
  /\ (call.op = "decode_exception" /\ call.arg.kind = "exception") =>
       call.ret.error_type = call.arg.cls
  /\ (SafeRunReturned /\ call.fault # None) =>
       call.ret.error_type = call.fault[1].cls

\* C11: the result of a snippet that faulted, run under source name S, has
\* S as its file_name, whether the fault came from compiling or from running
C11_FileNameIsSourceName ==
  (SafeRunReturned /\ call.fault # None) =>
    call.ret.file_name = Some(call.opts.filename)

\* the names the table holds an entry of its own for
KnownNames == DOMAIN EXCEPTION_MAPPINGS \ {"__unknown__"}

\* the entry for names the table does not hold, as it is when the table is loaded
Fallback == EXCEPTION_MAPPINGS["__unknown__"]

\* C12: a lookup of a name the table does not hold, the empty string and
\* None among them, returns the fallback entry, whose tags hold "unknown",
\* and raises nothing; decode_traceback gets that entry for such a type
C12_LookupTotal ==
  /\ (call.op = "get_exception_mapping" /\ KeyOf(call.arg) \notin DOMAIN EXCEPTION_MAPPINGS) =>
       /\ call.outcome = "returned"
       /\ call.ret = Fallback
       /\ \E i \in 1..Len(call.ret.tags) : call.ret.tags[i] = "unknown"
  /\ (/\ call.op = "decode_traceback" /\ call.looked # None
      /\ call.looked[1] \notin DOMAIN EXCEPTION_MAPPINGS) =>
       /\ call.ret.tags = Fallback.tags
       /\ call.ret.simple_explanation = Fallback.simple_explanation

\* lookups of None, of the empty string and of a class the table does not
\* know returned the fallback entry
C12_Witness ==
  /\ call.op = "get_exception_mapping" /\ call.outcome = "returned"
  /\ call.arg \in {PyNone, PyStr(<<>>), PyStr(<<"MyError">>)}
  /\ call.ret = Fallback

\* C13: one key of the table holds the fallback entry; a lookup of a known
\* name returns the entry stored under that name, which is not the fallback
\* entry, and the fallback entry is returned for no known name
C13_FallbackOnlyForUnknown ==
  /\ Cardinality({k \in DOMAIN table : table[k] = table["__unknown__"]}) = 1
  /\ call.op = "get_exception_mapping" =>
       /\ KeyOf(call.arg) \in KnownNames =>
            call.ret = EXCEPTION_MAPPINGS[KeyOf(call.arg)] /\ call.ret # Fallback
       /\ call.ret = Fallback => KeyOf(call.arg) \notin KnownNames

\* the lookup of a root class returned the entry of that class
C13_Witness ==
  /\ call.op = "get_exception_mapping"
  /\ KeyOf(call.arg) = "BaseException"
  /\ call.ret = EXCEPTION_MAPPINGS["BaseException"] /\ call.ret # Fallback

\* the operations of the library, as opposed to steps of the caller
LibraryOps ==
  {"decode_traceback", "decode_exception", "decode", "safe_run",
   "format_decoded_output", "get_exception_mapping"}

\* C14: whatever calls of decode_traceback, decode_exception, decode,
\* safe_run, format_decoded_output and get_exception_mapping were made, the
\* table is the one that was loaded and a lookup of each of its names returns
\* the entry loaded under that name
C14_TableUnchanged ==
  /\ table = EXCEPTION_MAPPINGS
  /\ \A T \in DOMAIN EXCEPTION_MAPPINGS : get_exception_mapping(T) = EXCEPTION_MAPPINGS[T]

\* a call has looked up a name the table does not hold, and the table is as
\* it was loaded
C14_Witness ==
  /\ call.op \in LibraryOps /\ call.outcome = "returned"
  /\ call.looked # None /\ call.looked[1] \notin DOMAIN EXCEPTION_MAPPINGS
  /\ table = EXCEPTION_MAPPINGS

\* C15: a result shares no list with the table: whatever a caller appends to
\* the tags of the results it holds, no list of the table holds what it
\* appended and a lookup of each name returns the entry that was loaded
C15_ResultsShareNothing ==
  /\ TableAppends = {}
  /\ \A T \in DOMAIN EXCEPTION_MAPPINGS : get_exception_mapping(T) = EXCEPTION_MAPPINGS[T]

\* the category the contract names for a type name, "" for a name it leaves
\* to the rules of categorize_error
NamedCategory(name) ==
  CASE name = "SyntaxError" -> "Syntax Errors"
    [] name = "NameError" -> "Name Errors"
    [] name = "TypeError" -> "Type Errors"
    [] name = "ValueError" -> "Value Errors"
    [] name = "ZeroDivisionError" -> "Arithmetic Errors"
    [] name \in {"UnknownError", "MyError", ""} -> "Other"
    [] OTHER -> ""

Categories ==
  {"Syntax Errors", "Name Errors", "Type Errors", "Value Errors", "Arithmetic Errors", "Other"}

\* C16: categorize_error returns one of the six labels for every name and
\* raises nothing; the five named classes get their label, a name that
\* matches no rule gets "Other", and the category of a decoded text is the
\* label of its error_type
C16_CategorizeTotal ==
  /\ call.op = "categorize_error" =>
       /\ call.outcome = "returned"
       /\ call.ret \in Categories
       /\ NamedCategory(KeyOf(call.arg)) \in {"", call.ret}
  /\ (call.op = "decode_traceback" /\ call.looked # None) =>
       /\ call.ret.category \in Categories
       /\ NamedCategory(call.ret.error_type) \in {"", call.ret.category}

\* a division by zero was decoded as an arithmetic error
C16_Witness ==
  /\ call.op = "decode_traceback"
  /\ call.ret.error_type = "ZeroDivisionError" /\ call.ret.category = "Arithmetic Errors"

\* a text that is not empty and holds neither a colon nor the opening of a
\* frame header: it has no type line and no frame header
NothingToParse(v) ==
  /\ v.kind = "str" /\ v.text # <<>>
  /\ \A i \in 1..Len(v.text) : v.text[i] \notin {":", "File \""}

\* C17: decode_traceback of a non-empty text with no type line and no frame
\* header returns a result with error_type "UnknownError", the explanation,
\* fix suggestion, tags and emoji of the fallback entry, category "Other"
\* and no line number, file name or function name
C17_UnparseableTextDegrades ==
  (call.op = "decode_traceback" /\ NothingToParse(call.arg)) =>
    /\ call.outcome = "returned"
    /\ call.ret.error_type = "UnknownError"
    /\ call.ret.simple_explanation = Fallback.simple_explanation
    /\ call.ret.fix_suggestion = Fallback.fix_suggestion
    /\ call.ret.tags = Fallback.tags
    /\ call.ret.emoji = Fallback.emoji
    /\ call.ret.category = "Other"
    /\ call.ret.line_number = None
    /\ call.ret.file_name = None
    /\ call.ret.function_name = None
    /\ call.ret.success = FALSE

\* a text of plain words was decoded to the fallback result
C17_Witness ==
  /\ call.op = "decode_traceback" /\ call.arg = PyStr(<<"m", " ", "m">>)
  /\ call.ret.error_type = "UnknownError" /\ call.ret.tags = Fallback.tags
  /\ call.ret.line_number = None

\* the frame headers and the type lines a diagnostic was made of, in order
FramesOf(d) == SelectSeq(d, LAMBDA l : l.kind = "frame")

TypeLinesOf(d) == SelectSeq(d, LAMBDA l : l.kind = "type")

\* C18: extract_line_number of a text with frame headers is the line number
\* of the last of them, a positive integer, and of no frame before it; it
\* is absent for a text with no frame header
C18_InnermostLineNumber ==
  call.op = "extract" =>
    LET F == FramesOf(call.opts.diag)
    IN IF F = <<>> THEN call.ret.line_number = None
       ELSE /\ call.ret.line_number = Some(F[Len(F)].line)
            /\ call.ret.line_number[1] > 0

\* frames on lines 3 and 10, line 10 innermost
C18_Witness ==
  /\ call.op = "extract"
  /\ Len(FramesOf(call.opts.diag)) = 2
  /\ FramesOf(call.opts.diag)[1].line = 3 /\ FramesOf(call.opts.diag)[2].line = 10
  /\ call.ret.line_number = Some(10)

\* C19: extract_function_name is the function of the last frame header, the
\* one whose line and file extract_line_number and extract_file_name give,
\* and is absent when that frame is at top level or there is no frame header
C19_FunctionOfInnermostFrame ==
  call.op = "extract" =>
    LET F == FramesOf(call.opts.diag)
    IN IF F = <<>> THEN call.ret.function_name = None
       ELSE /\ call.ret.file_name = Some(F[Len(F)].file)
            /\ call.ret.line_number = Some(F[Len(F)].line)
            /\ call.ret.function_name =
                 IF F[Len(F)].func = "<module>" THEN None ELSE Some(F[Len(F)].func)

\* the innermost frame is at top level and an outer one is inside a function
C19_Witness ==
  /\ call.op = "extract"
  /\ Len(FramesOf(call.opts.diag)) = 2
  /\ FramesOf(call.opts.diag)[1].func = "divide"
  /\ FramesOf(call.opts.diag)[2].func = "<module>"
  /\ call.ret.function_name = None /\ call.ret.line_number = Some(3)

\* C20: extract_error_type and extract_error_message read the last type line
\* of the text: the type is the identifier before its first colon and
\* space, the message all that follows them, colons included; both are
\* absent for a text with no type line, for the empty text and for None
C20_TypeAndMessageOfLastTypeLine ==
  call.op = "extract" =>
    LET T == TypeLinesOf(call.opts.diag)
    IN IF T = <<>> THEN call.ret.error_type = None /\ call.ret.error_message = None
       ELSE /\ call.ret.error_type = Some(T[Len(T)].cls)
            /\ call.ret.error_message = Some(T[Len(T)].msg)

\* two type lines, the last with a colon in its message
C20_Witness ==
  /\ call.op = "extract"
  /\ Len(TypeLinesOf(call.opts.diag)) = 2
  /\ call.ret.error_type = Some("ValueError")
  /\ call.ret.error_message = Some(<<"m", ":", " ", "m">>)

\* C21: sanitize_traceback applied to a text it returned returns that text
C21_SanitizeIdempotent ==
  (call.op = "sanitize_traceback" /\ call.opts.again) => call.ret = call.arg.text

\* the second pass over a text of several tokens returned by the first
C21_Witness ==
  /\ call.op = "sanitize_traceback" /\ call.opts.again
  /\ call.arg.text = <<"m", " ", "m">> /\ call.ret = <<"m", " ", "m">>

\* the tokens of a text that are no escape sequence, in order
WithoutEscapes(t) == SelectSeq(t, LAMBDA c : c # ESC)

\* the positions of a text that hold something else than whitespace
Inked(t) == {i \in 1..Len(t) : t[i] \notin Whitespace}

\* C22: sanitize_traceback returns the text without its escape sequences,
\* from the first to the last token that is no whitespace, with every line
\* break and every space between them kept; it returns the empty text for
\* the empty text, for None and for a value that is no text, and raises
\* nothing
C22_SanitizeStripsOuterOnly ==
  call.op = "sanitize_traceback" =>
    /\ call.outcome = "returned"
    /\ \A i \in 1..Len(call.ret) : call.ret[i] # ESC
    /\ IF call.arg.kind # "str" \/ Inked(WithoutEscapes(call.arg.text)) = {}
       THEN call.ret = <<>>
       ELSE LET y == WithoutEscapes(call.arg.text)
                first == CHOOSE i \in Inked(y) : \A j \in Inked(y) : i <= j
                last == CHOOSE i \in Inked(y) : \A j \in Inked(y) : j <= i
            IN call.ret = SubSeq(y, first, last)

\* the two padded lines keep the trailing spaces of the first line, the
\* line break and the indentation of the second
C22_Witness ==
  /\ call.op = "sanitize_traceback" /\ call.arg = PyStr(TwoPaddedLines)
  /\ call.ret = <<"m", "  ", "\n", "  ", "m">>

\* the text format_decoded_output returns for what it cannot format
InvalidMarker == <<"Invalid decoded data">>

\* the last call formatted a dictionary with at least one key
FormattedDict ==
  /\ call.op = "format_decoded_output"
  /\ DOMAIN call.opts.given # {} /\ "kind" \notin DOMAIN call.opts.given

\* C23: format_decoded_output returns the text "Invalid decoded data", and
\* raises nothing, for None, for the empty dictionary and for a value that
\* is no dictionary
C23_InvalidMarkerForNonDict ==
  (call.op = "format_decoded_output" /\ ~FormattedDict) =>
    call.outcome = "returned" /\ call.ret = InvalidMarker

\* a number that is not zero was answered with the marker
C23_Witness ==
  /\ call.op = "format_decoded_output" /\ ~FormattedDict
  /\ call.opts.given = PyInt(5) /\ call.ret = InvalidMarker

\* the text holds the token
Contains(t, tok) == \E i \in 1..Len(t) : t[i] = tok

\* an optional field of a dictionary, None when the key is missing
Field(d, k) == IF k \in DOMAIN d THEN d[k] ELSE None

\* C24: the text format_decoded_output makes of a dictionary always has the
\* header box and the explanation and fix sections; it has the location
\* block exactly when file_name or line_number is there, the technical block
\* exactly when include_technical is set, and the branding block exactly
\* when branding is there
C24_SectionsOfOutput ==
  FormattedDict =>
    LET d == call.opts.given
    IN /\ Contains(call.ret, "box:top") /\ Contains(call.ret, "box:bottom")
       /\ Contains(call.ret, "Simple Explanation:")
       /\ Contains(call.ret, "How to Fix:")
       /\ Contains(call.ret, "Error Location:") <=>
            (Field(d, "file_name") # None \/ Field(d, "line_number") # None)
       /\ Contains(call.ret, "Technical Details:") <=> call.opts.include_technical
       /\ Contains(call.ret, "rule") <=> Field(d, "branding") # None

\* a result with a location and without branding, formatted without the
\* technical block
C24_Witness ==
  /\ FormattedDict
  /\ Field(call.opts.given, "line_number") # None
  /\ Field(call.opts.given, "branding") = None
  /\ ~call.opts.include_technical
  /\ Contains(call.ret, "Error Location:")
  /\ ~Contains(call.ret, "Technical Details:") /\ ~Contains(call.ret, "rule")

\* the escape codes format_decoded_output writes when color is on
FormatterCodes ==
  {"\\033[91m", "\\033[92m", "\\033[93m", "\\033[96m", "\\033[95m", "\\033[94m",
   "\\033[0m", "\\033[1m"}

\* C25: for every dictionary and every include_technical, the text made with
\* color off is the text made with color on without its escape codes, and
\* holds no escape code itself
C25_ColorOnlyAddsCodes ==
  FormattedDict =>
    LET on == format_decoded_output(call.opts.given, call.opts.include_technical, TRUE)
        off == format_decoded_output(call.opts.given, call.opts.include_technical, FALSE)
    IN /\ call.ret = IF call.opts.color THEN on ELSE off
       /\ off = SelectSeq(on, LAMBDA c : c \notin FormatterCodes)
       /\ \A i \in 1..Len(off) : off[i] \notin FormatterCodes

\* a text made with color on, which holds escape codes
C25_Witness ==
  /\ FormattedDict /\ call.opts.color /\ call.opts.include_technical
  /\ Contains(call.ret, "\\033[95m") /\ Contains(call.ret, "\\033[0m")

\* the last call formatted a dictionary that a decoding call or safe_run had
\* returned
FormattedResult == FormattedDict /\ "success" \in DOMAIN call.opts.given

\* C30: format_decoded_output of a dictionary returned by decode_traceback,
\* decode_exception, decode or safe_run, the success result and the results
\* for invalid input among them, raises nothing for any include_technical
\* and color, returns a text with the header box, and leaves the dictionary
\* as it was
C30_FormatAcceptsEveryResult ==
  FormattedResult =>
    /\ call.outcome = "returned"
    /\ call.ret # InvalidMarker /\ Contains(call.ret, "box:top")
    /\ call.arg = call.opts.given

\* the success result of safe_run, which has no error_type, was formatted
C30_Witness ==
  /\ FormattedResult
  /\ call.opts.given.success /\ "error_type" \notin DOMAIN call.opts.given
  /\ Contains(call.ret, "Error") /\ call.arg = call.opts.given

\* C26: a result of decode_traceback has the key syntax_details exactly when
\* is_syntax_error holds of the sanitized text; it has it for SyntaxError
\* and for IndentationError, and not for ValueError or any other class
C26_SyntaxDetailsIffSyntaxClass ==
  call.op = "decode_traceback" =>
    /\ "syntax_details" \in DOMAIN call.ret <=>
         (call.looked # None /\ is_syntax_error(sanitize_traceback(call.arg)))
    /\ call.ret.error_type \in {"SyntaxError", "IndentationError"} =>
         "syntax_details" \in DOMAIN call.ret
    /\ call.ret.error_type \notin SyntaxClass => "syntax_details" \notin DOMAIN call.ret

\* the indentation fault of the samples was decoded with its details
C26_Witness ==
  /\ call.op = "decode_traceback"
  /\ call.ret.error_type = "IndentationError"
  /\ "syntax_details" \in DOMAIN call.ret
  /\ call.ret.syntax_details.line = Some(<<"return result">>)

\* the last call was safe_run with a code text and no dictionary of the caller
NoNamespace ==
  /\ call.op = "safe_run"
  /\ call.arg.kind = "str" /\ call.arg.text # <<>>
  /\ call.opts.globals_dict = None /\ call.opts.locals_dict = None

\* the lines of the snippet of the last call that bind a name
Assigns == {i \in 1..Len(call.arg.text) : call.arg.text[i].op = "assign"}

\* C27: a snippet run without a dictionary of the caller sees no binding of
\* an earlier call (reading a name it has not bound itself is a NameError),
\* leaves no binding behind, and the result field is what the snippet
\* itself bound to result, None when it bound nothing
C27_FreshNamespacePerCall ==
  NoNamespace =>
    /\ heap = call.heap_before
    /\ \A i \in 1..Len(call.arg.text) :
         (/\ Compiles
          /\ call.arg.text[i].op = "printvar"
          /\ \A j \in Assigns : j > i
          /\ call.fault = None \/ call.fault[1].at >= i) =>
           /\ call.fault # None /\ call.fault[1].at = i
           /\ call.fault[1].cls = "NameError"
    /\ (call.outcome = "returned" /\ call.ret.success) =>
         call.ret.result = IF Assigns = {} THEN None ELSE Some(AssignedValue)

\* an earlier call left result in a dictionary of the caller, and a snippet
\* run without a dictionary does not find it
C27_Witness ==
  /\ NoNamespace
  /\ "result" \in DOMAIN call.heap_before["G"]
  /\ call.arg.text = <<PrintVarStmt("result")>>
  /\ call.outcome = "returned" /\ call.ret.error_type = "NameError"

\* C28: when the snippet does not compile, safe_run returns a result with
\* success false and a syntax-class error_type, the output is empty, and
\* the dictionaries of the caller are as they were before the call: no
\* statement ran, not even those before the line that does not parse
C28_NothingRunsOnCompileFault ==
  (call.op = "safe_run" /\ call.arg.kind = "str" /\ call.arg.text # <<>> /\ ~Compiles) =>
    /\ call.outcome = "returned"
    /\ call.ret.success = FALSE
    /\ call.ret.error_type \in SyntaxClass
    /\ call.ret.output = <<>>
    /\ heap = call.heap_before

\* a print and an assignment stand before the line that does not parse, and
\* the snippet was given a dictionary of the caller
C28_Witness ==
  /\ call.op = "safe_run" /\ call.arg.kind = "str" /\ Len(call.arg.text) = 3
  /\ call.arg.text[1].op = "print" /\ call.arg.text[2].op = "assign"
  /\ call.arg.text[3].op = "bad"
  /\ call.opts.globals_dict = Some("G")
  /\ call.ret.output = <<>> /\ "result" \notin DOMAIN heap["G"]
  /\ call.ret.error_type = "SyntaxError"

\* C29: decode_traceback returns the InvalidInput result for the empty text
\* and for a value that is no text, and for nothing else: a text that is not
\* empty, be it only whitespace or escape sequences, is decoded, its
\* raw_traceback is the sanitized text and its error_type the extracted type
\* or "UnknownError"
C29_InvalidInputOnlyForEmpty ==
  call.op = "decode_traceback" =>
    IF call.arg.kind = "str" /\ call.arg.text # <<>>
    THEN /\ call.ret.error_type # "InvalidInput"
         /\ call.ret.raw_traceback = sanitize_traceback(call.arg)
         /\ call.ret.error_type =
              IF extract_error_type(sanitize_traceback(call.arg)) = None THEN "UnknownError"
              ELSE extract_error_type(sanitize_traceback(call.arg))[1]
         /\ call.ret.category # "Input Error"
    ELSE /\ call.ret.error_type = "InvalidInput"
         /\ call.ret.tags = <<"invalid_input">>

\* a text of whitespace only was decoded to an unknown error with an empty
\* raw_traceback
C29_Witness ==
  /\ call.op = "decode_traceback" /\ call.arg = PyStr(<<" ", "\n">>)
  /\ call.ret.error_type = "UnknownError" /\ call.ret.raw_traceback = <<>>

====
